---- MODULE Spec2Model ----
(***************************************************************************)
(* Memory effectiveness engine of langfuse-deployment:                     *)
(*   - the implicit signal scorer (MemoryOperations._calculate_effectiveness)*)
(*   - application tracking (MemoryOperations.track_memory_application)    *)
(*   - the pattern correlator                                              *)
(*     (MemoryPatternExtractor._extract_patterns_from_trace)               *)
(*   - the temporal weight of a memory record (tests/conftest.py            *)
(*     memory_factory, tests/temporal/test_memory_decay.py)                *)
(*   - the aggregator (MemoryPatternExtractor.identify_prompt_improvements) *)
(*     and the A/B comparison (MemoryEvaluators.run_dataset_evaluation)    *)
(*                                                                         *)
(* Numbers.  The scorer's weights are kept in tenths (0.3 is 3).  A score  *)
(* or a confidence is an integer count of 1/Scale, Scale being a common    *)
(* multiple of every total weight the scorer can divide by (2..18) and of  *)
(* 10, so that weighted_sum / total_weight is exact.  The correlator's     *)
(* effectiveness is an integer count of 1/PScale (PScale = 1500, the       *)
(* denominator of its time bonus), so 0.7 is 1050 and 0.1 is 150.          *)
(***************************************************************************)
EXTENDS Integers, Sequences, FiniteSets, TLC

VARIABLES
    \* ---- MemoryOperations instance and the memory store behind it ----
    memory,          \* self.memory is set (a memory client is configured)
    langfuse,        \* self.langfuse is set (LANGFUSE_PUBLIC_KEY present)
    confidence,      \* the confidence the store holds for the tracked memory
    old_confidence,  \* the stored confidence before the last call
    calls,           \* number of track_memory_application calls made
    last_result,     \* the result dictionary of the last call
    indicators,      \* the mapping last given to _calculate_effectiveness
    effectiveness,   \* the value it returned
    sc,              \* position of the scorer call: "input" | "scored"
    update,          \* the last call's update_memory_score: none | ok | raised
    score_delta,     \* the score_delta handed to the store by the last call
    updates,         \* update_memory_score calls issued by the last call
    returned,        \* what the last call returned to its caller
    \* ---- MemoryPatternExtractor instance and the trace it is given ----
    trace_id,        \* trace.id
    observations,    \* the trace's observations, as fetched
    min_effectiveness, \* the threshold of the last correlation
    patterns,        \* what the last correlation returned
    self_patterns,   \* self.patterns of the extractor instance
    cpc,             \* position of the correlation: "input" | "done"
    remembered,      \* history: one earlier correlation, input and result
    \* ---- the tracked memory record, as memory_factory builds it ----
    mem_type,        \* memory["type"]; "" while no record was created
    age_days,        \* the age_days the record was created with
    created_at,      \* memory["created_at"], in days
    superseded,      \* memory["superseded"]
    temporal_weight, \* memory["temporal_weight"], as stored in the record
    now,             \* datetime.now(), in days
    read,            \* what the last read of the record gave its caller
    \* ---- records created one after the other (a test's list) ----
    memories,
    \* ---- the per-type decay table applied to one age ----
    rate_age,        \* the age_days the table is applied to
    type_weights,    \* memory type -> weight; <<>> until computed
    rpc,             \* position of that computation: "input" | "done"
    \* ---- identify_prompt_improvements ----
    improvements,    \* the list it returned
    ipc,             \* position of the call: "input" | "done"
    \* ---- MemoryEvaluators instance and one run_dataset_evaluation ----
    ev_langfuse,     \* self.langfuse of the evaluators is set
    prompt_variants, \* the prompt_variants argument (<<>>: None or empty)
    dataset_items,   \* hash(str(item)) of each dataset item, in order
    evaluator_name,  \* the evaluator_name argument
    known_prompts,   \* the variants whose prompt get_prompt finds
    eval_results,    \* what the call returned
    epc,             \* position of the call: "input" | "done"
    \* ---- one extract_success_patterns call of a MemoryPatternExtractor ----
    ex_langfuse,     \* self.langfuse of the extractor is set
    ex_traces,       \* traces.data: the observations of each trace, in order
    ex_fail,         \* the fetch that raises: "none" | "traces" | a trace id
    ex_min_effectiveness, \* the min_effectiveness argument
    ex_result,       \* how the call ended: what it returned or raised
    fetch_log,       \* the fetches made, in order: "traces" | a trace id
    xpc,             \* position of the call: "input" | "done"
    \* ---- MemoryPromptManager instance ----
    pm_env,          \* credentials in the environment at construction
    pm_langfuse,     \* self.langfuse is set
    pm_cache,        \* self.cache: cache key -> prompt and timestamp
    pm_now,          \* datetime.now(), in seconds
    pm_ticks,        \* number of times the clock was moved
    pm_gets,         \* get_prompt calls made
    pm_call,         \* arguments and circumstances of the last get_prompt
    pm_result        \* how the last get_prompt ended

scorerVars == <<indicators, effectiveness, sc>>
trackVars  == <<memory, langfuse, confidence, old_confidence, calls,
                last_result, update, score_delta, updates, returned>>
corrVars   == <<trace_id, observations, min_effectiveness, patterns,
                self_patterns, cpc, remembered>>
memVars    == <<mem_type, age_days, created_at, superseded, now, read>>
rateVars   == <<rate_age, type_weights, rpc>>
decayVars  == <<memVars, temporal_weight, memories, rateVars>>
aggVars    == <<improvements, ipc>>
evalVars   == <<ev_langfuse, prompt_variants, dataset_items, evaluator_name,
                known_prompts, eval_results, epc>>
extractVars == <<ex_langfuse, ex_traces, ex_fail, ex_min_effectiveness,
                 ex_result, fetch_log, xpc>>
promptVars == <<pm_env, pm_langfuse, pm_cache, pm_now, pm_ticks, pm_gets,
                pm_call, pm_result>>
vars == <<scorerVars, trackVars, corrVars, decayVars, aggVars, evalVars,
          extractVars, promptVars>>

-----------------------------------------------------------------------------
(* Python values *)

PyNone  == "None"
PyTrue  == "True"
PyFalse == "False"
Tri     == {PyNone, PyTrue, PyFalse}

Max(a, b) == IF a >= b THEN a ELSE b
Min(a, b) == IF a <= b THEN a ELSE b

-----------------------------------------------------------------------------
(* Python floats (IEEE 754 binary64) of the temporal weights.               *)
(* A weight is kept exactly, as the integer count of 2^-60 it stands for,   *)
(* written in three limbs <<h, m, l>> = h * 2^40 + m * 2^20 + l.  Every     *)
(* double between 2^-8 and 2^11 is such a count; a product or a difference  *)
(* is formed exactly and then rounded to 53 significant bits, ties to even. *)

Limb == 2 ^ 20

RECURSIVE BitLength(_)
BitLength(n) == IF n = 0 THEN 0 ELSE 1 + BitLength(n \div 2)

\* the limbs of a count whose low limbs may have run over
Carry(h, m, l) ==
    LET m1 == m + l \div Limb
    IN  <<h + m1 \div Limb, m1 % Limb, l % Limb>>

WideLess(x, y) ==
    \/ x[1] < y[1]
    \/ x[1] = y[1] /\ x[2] < y[2]
    \/ x[1] = y[1] /\ x[2] = y[2] /\ x[3] < y[3]

WideLeq(x, y) == x = y \/ WideLess(x, y)

\* x - y for x >= y
WideSub(x, y) ==
    LET bl == IF x[3] < y[3] THEN 1 ELSE 0
        l  == x[3] + bl * Limb - y[3]
        bm == IF x[2] - bl < y[2] THEN 1 ELSE 0
        m  == x[2] - bl + bm * Limb - y[2]
    IN  <<x[1] - bm - y[1], m, l>>

\* x * n for an integer 0 <= n < 2048, exactly
WideTimes(x, n) == Carry(x[1] * n, x[2] * n, x[3] * n)

\* x * 0.5, exact for the even counts the weights are
WideHalf(x) ==
    <<x[1] \div 2,
      (x[2] + (x[1] % 2) * Limb) \div 2,
      (x[3] + (x[2] % 2) * Limb) \div 2>>

\* the double nearest to the exact count x (round half to even); a count
\* below 2^53 is a double already
RoundToDouble(x) ==
    LET k == IF x[1] = 0 THEN 0 ELSE Max(0, 40 + BitLength(x[1]) - 53)
    IN  IF k = 0 THEN x
        ELSE LET unit == 2 ^ k
                 rem  == x[3] % unit
                 odd  == (x[3] \div unit) % 2 = 1
                 up   == 2 * rem > unit \/ (2 * rem = unit /\ odd)
             IN  Carry(x[1], x[2], x[3] - rem + (IF up THEN unit ELSE 0))

\* the doubles the decay code names
F_1_0   == <<1048576, 0, 0>>             \* 1.0
F_0_1   == <<104857, 629145, 629152>>    \* 0.1
F_0_03  == <<31457, 293601, 293600>>     \* 0.03
F_0_01  == <<10485, 796917, 796918>>     \* 0.01
F_0_005 == <<5242, 922746, 922747>>      \* 0.005
F_0_7   == <<734003, 209715, 209664>>    \* 0.7
F_0_9   == <<943718, 419430, 419456>>    \* 0.9
F_0_95  == <<996147, 209715, 209664>>    \* 0.95
F_0_05  == <<52428, 838860, 838864>>     \* 0.05
F_0_5   == <<524288, 0, 0>>              \* 0.5
F_0_395 == <<414187, 545259, 545280>>    \* 0.395
F_0_3   == <<314572, 838860, 838848>>    \* 0.3
F_0_4   == <<419430, 419430, 419456>>    \* 0.4
F_0_6   == <<629145, 629145, 629120>>    \* 0.6
F_0_8   == <<838860, 838860, 838912>>    \* 0.8
F_0_85  == <<891289, 629145, 629120>>    \* 0.85

\* max(0.0, 1.0 - (age_days * rate))
MutDecayFloorZero(age, rate) ==
    LET product == RoundToDouble(WideTimes(rate, age))
    IN  IF WideLeq(F_1_0, product)
          THEN <<0, 0, 0>>
          ELSE RoundToDouble(WideSub(F_1_0, product))

\* max(0.1, 1.0 - (age_days * rate))
decay_weight(age, rate) ==
    LET product == RoundToDouble(WideTimes(rate, age))
    IN  IF WideLeq(F_1_0, product)
          THEN F_0_1                         \* 1.0 - product <= 0 < 0.1
          ELSE LET difference == RoundToDouble(WideSub(F_1_0, product))
               IN  IF WideLess(F_0_1, difference) THEN difference ELSE F_0_1

\* x + y, exactly
WideAdd(x, y) == Carry(x[1] + y[1], x[2] + y[2], x[3] + y[3])

\* the whole part of x / n and whether the division came out even,
\* for an integer 0 < n < 2048
WideDivide(x, n) ==
    LET tm == (x[1] % n) * Limb + x[2]
        tl == (tm % n) * Limb + x[3]
    IN  [q |-> <<x[1] \div n, tm \div n, tl \div n>>, exact |-> tl % n = 0]

\* the double nearest to a quotient, given its whole part (of 54 bits or
\* more, unless the division came out even) and whether it came out even
RoundQuotient(q, exact) ==
    LET k == IF q[1] = 0 THEN 0 ELSE Max(0, 40 + BitLength(q[1]) - 53)
    IN  IF k = 0 THEN q
        ELSE LET unit == 2 ^ k
                 rem  == q[3] % unit
                 odd  == (q[3] \div unit) % 2 = 1
                 up   == \/ 2 * rem > unit
                         \/ 2 * rem = unit /\ (odd \/ ~exact)
             IN  Carry(q[1], q[2], q[3] - rem + (IF up THEN unit ELSE 0))

\* the float x + y
float_add(x, y) == RoundToDouble(WideAdd(x, y))

\* the float x / n for an integer n
float_div(x, n) ==
    LET d == WideDivide(x, n) IN RoundQuotient(d.q, d.exact)

\* the float of a small integer
float_of(n) == <<n * Limb, 0, 0>>

\* sum(scores): 0 + scores[0] + scores[1] + ..., each sum rounded
RECURSIVE float_sum(_)
float_sum(scores) ==
    IF scores = <<>> THEN <<0, 0, 0>>
    ELSE float_add(float_sum(SubSeq(scores, 1, Len(scores) - 1)),
                   scores[Len(scores)])

-----------------------------------------------------------------------------
(* The memory record and its temporal weight *)

MemoryTypes == {"solution", "pattern", "principle", "debug", "tdd_cycle"}

\* create_memory(memory_type, age_days, confidence, superseded), called at
\* time now_: the record's fields that the weight, the age and the score
\* depend on.  The weight is computed here, once, with the rate 0.03.
MutFactoryAppliesSupersession(memory_type, age, conf, sup, now_) ==
    [type |-> memory_type, created_at |-> now_ - age, confidence |-> conf,
     superseded |-> sup,
     temporal_weight |-> IF sup THEN WideHalf(decay_weight(age, F_0_03))
                                ELSE decay_weight(age, F_0_03)]

create_memory(memory_type, age, conf, sup, now_) ==
    [type |-> memory_type, created_at |-> now_ - age, confidence |-> conf,
     superseded |-> sup,
     temporal_weight |-> decay_weight(age, F_0_03)]

\* superseded_memory["temporal_weight"] * supersession_multiplier, 0.5
MutSupersededWeightQuarter(weight) == WideHalf(WideHalf(weight))

superseded_weight(weight) == WideHalf(weight)

HISTORICAL_THRESHOLD_DAYS == 30

\* is_historical = age >= HISTORICAL_THRESHOLD_DAYS
is_historical(age) == age >= HISTORICAL_THRESHOLD_DAYS

\* evaluate_memory_freshness: "keep" if age_days < 30 else
\*                            "update" if age_days < 90 else "supersede"
recommendation(age) ==
    IF age < 30 THEN "keep" ELSE IF age < 90 THEN "update" ELSE "supersede"

\* the table of test_decay_rate_customization
MutDecayRatesSwapped ==
    [solution |-> F_0_03, pattern |-> F_0_01,
     principle |-> F_0_1, debug |-> F_0_005]

decay_rates ==
    [solution |-> F_0_03, pattern |-> F_0_01,
     principle |-> F_0_005, debug |-> F_0_1]

\* for memory_type, rate in decay_rates.items():
\*     weight = max(0.1, 1.0 - (age_days * rate))
customized_weights(age) ==
    [t \in DOMAIN decay_rates |-> decay_weight(age, decay_rates[t])]

\* nothing was read yet
NoRead == [done |-> FALSE]

\* no record, no list, no table
DecayIdle ==
    /\ mem_type = ""
    /\ age_days = 0
    /\ created_at = 0
    /\ superseded = FALSE
    /\ temporal_weight = F_1_0
    /\ now = 0
    /\ read = NoRead
    /\ memories = <<>>
    /\ rate_age = 0
    /\ type_weights = <<>>
    /\ rpc = "idle"

\* identify_prompt_improvements is not called
AggIdle ==
    /\ improvements = <<>>
    /\ ipc = "idle"

\* no MemoryEvaluators instance
EvalIdle ==
    /\ ev_langfuse = FALSE
    /\ prompt_variants = <<>>
    /\ dataset_items = <<>>
    /\ evaluator_name = ""
    /\ known_prompts = {}
    /\ eval_results = <<>>
    /\ epc = "idle"

\* extract_success_patterns is not called
ExtractIdle ==
    /\ ex_langfuse = FALSE
    /\ ex_traces = <<>>
    /\ ex_fail = "none"
    /\ ex_min_effectiveness = 0
    /\ ex_result = [kind |-> "none"]
    /\ fetch_log = <<>>
    /\ xpc = "idle"

\* no MemoryPromptManager instance
PromptIdle ==
    /\ pm_env = [public_key |-> FALSE, secret_key |-> FALSE,
                 client_raises |-> FALSE]
    /\ pm_langfuse = FALSE
    /\ pm_cache = <<>>
    /\ pm_now = 0
    /\ pm_ticks = 0
    /\ pm_gets = 0
    /\ pm_call = [made |-> FALSE]
    /\ pm_result = [kind |-> "none"]

\* neither the aggregator, the evaluators, extract_success_patterns nor the
\* prompt manager are used
LaterIdle == AggIdle /\ EvalIdle /\ ExtractIdle /\ PromptIdle

-----------------------------------------------------------------------------
(* Bounds of the model *)

MaxCalls == 1          \* track_memory_application calls in one behaviour

-----------------------------------------------------------------------------
(* The implicit signal scorer *)

Scale == 16 * 9 * 5 * 7 * 11 * 13 * 17      \* lcm(1..18): one whole score
Half  == Scale \div 2                       \* the neutral default 0.5
Tenth == Scale \div 10

\* Mutant of the weight table: tests_passed as heavy as task_completed
MutWeightsTestsTied == [command_executed |-> 3,
                        tests_passed     |-> 5,
                        task_completed   |-> 5,
                        error_resolved   |-> 4,
                        file_modified    |-> 2]

\* memory_operations.py:290-296, in tenths
weights == [command_executed |-> 3,
            tests_passed     |-> 4,
            task_completed   |-> 5,
            error_resolved   |-> 4,
            file_modified    |-> 2]

IndicatorKeys == DOMAIN weights

\* for key, value in indicators.items():
\*     if value is not None and key in weights: total_weight += weight
\*         if value: weighted_sum += weight
\* One term per key of weights: a key the mapping lacks, or maps to None,
\* adds nothing; keys outside weights are skipped by the loop.
counted(ind, key) == key \in DOMAIN ind /\ ind[key] # PyNone

truthy(ind, key) == counted(ind, key) /\ ind[key] = PyTrue

total_weight(ind) ==
      (IF counted(ind, "command_executed") THEN weights.command_executed ELSE 0)
    + (IF counted(ind, "tests_passed")     THEN weights.tests_passed     ELSE 0)
    + (IF counted(ind, "task_completed")   THEN weights.task_completed   ELSE 0)
    + (IF counted(ind, "error_resolved")   THEN weights.error_resolved   ELSE 0)
    + (IF counted(ind, "file_modified")    THEN weights.file_modified    ELSE 0)

weighted_sum(ind) ==
      (IF truthy(ind, "command_executed") THEN weights.command_executed ELSE 0)
    + (IF truthy(ind, "tests_passed")     THEN weights.tests_passed     ELSE 0)
    + (IF truthy(ind, "task_completed")   THEN weights.task_completed   ELSE 0)
    + (IF truthy(ind, "error_resolved")   THEN weights.error_resolved   ELSE 0)
    + (IF truthy(ind, "file_modified")    THEN weights.file_modified    ELSE 0)

\* Mutants of the scorer (plausible slips), used to test the theorems.
\* no division: the raw weighted sum is returned
MutEffectivenessUnnormalised(ind) ==
    IF total_weight(ind) > 0 THEN weighted_sum(ind) * Tenth ELSE Half

\* an absent/null indicator counted in the denominator like a false one
MutEffectivenessNullCounts(ind) ==
    LET tw == total_weight([k \in DOMAIN ind |->
                  IF ind[k] = PyNone THEN PyFalse ELSE ind[k]])
    IN  IF tw > 0 THEN (weighted_sum(ind) * Scale) \div tw ELSE Half

\* a false indicator ignored like a null one
MutEffectivenessFalseIgnored(ind) ==
    IF weighted_sum(ind) > 0 THEN Scale ELSE Half

\* return weighted_sum / total_weight if total_weight > 0 else 0.5
_calculate_effectiveness(ind) ==
    IF total_weight(ind) > 0
      THEN (weighted_sum(ind) * Scale) \div total_weight(ind)
      ELSE Half

\* Mappings the scorer may be given: any subset of the recognised keys and of
\* one unrecognised key, each mapped to True, False or None.
OtherKey == "duration_ms"
AllKeys  == IndicatorKeys \cup {OtherKey}
Mappings == UNION {[S -> Tri] : S \in SUBSET AllKeys}

\* the mapping without its None entries
WithoutNulls(ind) ==
    [k \in {x \in DOMAIN ind : ind[x] # PyNone} |-> ind[k]]

NonNull(ind) == {k \in DOMAIN ind \cap IndicatorKeys : ind[k] # PyNone}

-----------------------------------------------------------------------------
(* Application tracking *)

\* The result dictionaries a caller passes: every combination of the five
\* recognised entries being absent, truthy or falsy.
Results == {r \in [has_exit_code  : BOOLEAN,
                   exit_code      : {0, 1},
                   tests_passed   : Tri,
                   task_completed : Tri,
                   error_resolved : Tri,
                   file_modified  : Tri] : r.has_exit_code \/ r.exit_code = 0}

\* the result dictionary {} (no recognised entry)
EmptyResult == [has_exit_code |-> FALSE, exit_code |-> 0,
                tests_passed |-> PyNone, task_completed |-> PyNone,
                error_resolved |-> PyNone, file_modified |-> PyNone]

\* Mutant: command_executed taken from the truthiness of exit_code
MutIndicatorsExitTruthy(result) ==
    [command_executed |-> IF result.has_exit_code
                            THEN (IF result.exit_code # 0 THEN PyTrue ELSE PyFalse)
                            ELSE PyNone,
     tests_passed     |-> result.tests_passed,
     task_completed   |-> result.task_completed,
     error_resolved   |-> result.error_resolved,
     file_modified    |-> result.file_modified]

\* memory_operations.py:242-248
success_indicators(result) ==
    [command_executed |-> IF result.has_exit_code
                            THEN (IF result.exit_code = 0 THEN PyTrue ELSE PyFalse)
                            ELSE PyNone,
     tests_passed     |-> result.tests_passed,
     task_completed   |-> result.task_completed,
     error_resolved   |-> result.error_resolved,
     file_modified    |-> result.file_modified]

\* Mutant of the write condition: a neutral score is written too
MutUpdateAtHalf(mem, eff) == mem /\ eff >= Half

\* if self.memory and effectiveness > 0.5
update_wanted(mem, eff) == mem /\ eff > Half

\* The store applying update_memory_score(memory_id, score_delta): the delta
\* is added to the stored confidence exactly as the core handed it over.
apply_score_delta(conf, delta) == conf + delta

InitConfidences == {0, 7 * Tenth, 8 * Tenth, Scale}

NoReturn == [memory_id |-> "", effectiveness |-> 0, success_indicators |-> <<>>]

TrackInit ==
    /\ memory \in BOOLEAN
    /\ langfuse \in BOOLEAN
    /\ confidence \in InitConfidences
    /\ old_confidence = confidence
    /\ calls = 0
    /\ last_result = EmptyResult
    /\ update = "none"
    /\ score_delta = 0
    /\ updates = 0
    /\ returned = NoReturn

\* patterns = defaultdict(list): a bucket exists once something was appended
EmptyPatterns == [b \in {} |-> <<>>]

\* no correlation is remembered
NoCall == [called |-> FALSE]

\* the extractor is not used
CorrIdle ==
    /\ trace_id = ""
    /\ observations = <<>>
    /\ min_effectiveness = 0
    /\ patterns = EmptyPatterns
    /\ self_patterns = EmptyPatterns
    /\ cpc = "idle"
    /\ remembered = NoCall

ScorerIdle ==
    /\ indicators = <<>>
    /\ effectiveness = Half
    /\ sc = "idle"

\* The store's record after update_memory_score(memory_id, score_delta):
\* the core hands over a score delta and nothing else.
MutUpdateRefreshesWeight(record, delta) ==
    [confidence |-> apply_score_delta(record.confidence, delta),
     temporal_weight |-> F_1_0]

update_memory_score(record, delta) ==
    [confidence |-> apply_score_delta(record.confidence, delta),
     temporal_weight |-> record.temporal_weight]

\* Mutant of the error handling: the store's failure reaches the caller,
\* who gets no result
MutStoreFailurePropagates(ind, eff, outcome) ==
    IF outcome = "raised" THEN NoReturn
    ELSE [memory_id |-> "mem_123", effectiveness |-> eff,
          success_indicators |-> ind]

\* memory_operations.py:264-278: the except clause logs the store's failure,
\* and the call returns its dictionary whatever the update did
tracking_result(ind, eff, outcome) ==
    [memory_id |-> "mem_123", effectiveness |-> eff,
     success_indicators |-> ind]

\* One call of track_memory_application(memory_id, action_taken, result);
\* store_raises: update_memory_score raises when it is called.
track_memory_application(result, store_raises) ==
    \E ind \in {success_indicators(result)} :
    \E eff \in {_calculate_effectiveness(ind)} :
        /\ calls' = calls + 1
        /\ last_result' = result
        /\ indicators' = ind
        /\ effectiveness' = eff
        /\ sc' = "scored"
        /\ old_confidence' = confidence
        /\ IF update_wanted(memory, eff)
             THEN /\ updates' = 1
                  /\ score_delta' = eff
                  /\ IF store_raises
                       THEN /\ update' = "raised"     \* logged, swallowed
                            /\ confidence' = confidence
                            /\ temporal_weight' = temporal_weight
                       ELSE /\ update' = "ok"
                            /\ \E rec \in {update_memory_score(
                                      [confidence |-> confidence,
                                       temporal_weight |-> temporal_weight],
                                      eff)} :
                                  /\ confidence' = rec.confidence
                                  /\ temporal_weight' = rec.temporal_weight
             ELSE /\ store_raises = FALSE
                  /\ updates' = 0
                  /\ score_delta' = 0
                  /\ update' = "none"
                  /\ confidence' = confidence
                  /\ temporal_weight' = temporal_weight
        /\ returned' = tracking_result(ind, eff, update')
        /\ UNCHANGED <<memory, langfuse, corrVars, memVars, memories, rateVars,
                       aggVars, evalVars,
                       extractVars, promptVars>>

TrackMemoryApplication(result, store_raises) ==
    /\ calls < MaxCalls
    /\ track_memory_application(result, store_raises)

Init == TrackInit /\ ScorerIdle /\ CorrIdle /\ DecayIdle /\ LaterIdle

Next == \E result \in Results, store_raises \in BOOLEAN :
            TrackMemoryApplication(result, store_raises)

Spec == Init /\ [][Next]_vars

-----------------------------------------------------------------------------
(* The scorer on its own: Init draws the mapping, the action scores it. *)

ScorerInit ==
    /\ indicators \in Mappings
    /\ effectiveness = Half
    /\ sc = "input"

TrackIdle ==
    /\ memory = FALSE
    /\ langfuse = FALSE
    /\ confidence = 0
    /\ old_confidence = 0
    /\ calls = 0
    /\ last_result = EmptyResult
    /\ update = "none"
    /\ score_delta = 0
    /\ updates = 0
    /\ returned = NoReturn

CalculateEffectiveness ==
    /\ sc = "input"
    /\ effectiveness' = _calculate_effectiveness(indicators)
    /\ sc' = "scored"
    /\ UNCHANGED <<indicators, trackVars, corrVars, decayVars, aggVars,
                   evalVars,
                   extractVars, promptVars>>

InitScorer == ScorerInit /\ TrackIdle /\ CorrIdle /\ DecayIdle /\ LaterIdle

NextScorer == CalculateEffectiveness

SpecScorer == InitScorer /\ [][NextScorer]_vars

-----------------------------------------------------------------------------
(* The pattern correlator *)

MaxObs == 3            \* observations in one trace

PScale == 1500         \* one whole effectiveness, in units of the time bonus
DefaultTimeToAction == 300   \* action.get('time_to_action', 300)
CausalityWindow == 300       \* time_delta < 300

\* An observation of a trace.  metadata is spread over the fields the code
\* reads: memory_operation, search_type, command_executed, task_completed,
\* error_resolved; vocab is the set of keywords among gtd, task, code, debug,
\* error that str(metadata).lower() contains besides those of its keys;
\* results is obs.output read as the list of returned memories (their scores
\* in tenths) and output is str(obs.output).
Observation(mo, st, res, ce, tc, er, voc, out, t) ==
    [memory_operation  |-> mo,
     search_type       |-> st,
     input             |-> IF mo = "search" THEN "query " \o st ELSE "",
     results           |-> res,
     command_executed  |-> ce,
     task_completed    |-> tc,
     error_resolved    |-> er,
     vocab             |-> voc,
     output            |-> out,
     start_time        |-> t]

SearchObs(st, res, t) ==
    Observation("search", st, res, PyNone, PyNone, PyNone, {}, "", t)

ActionObs(ce, tc, er, t) ==
    Observation(PyNone, PyNone, <<>>, ce, tc, er, {}, "", t)

PlainObs(voc, out) ==
    Observation(PyNone, PyNone, <<>>, PyNone, PyNone, PyNone, voc, out, 0)

\* The observations traces are built from: searches with 0, 1, 2 and 3
\* results scoring above 0.7, actions of every type before, at, within and
\* at the edge of the causality window of a search, failed actions, actions
\* carrying several outcome keys, an observation that is both a search and
\* an action, and observations carrying only vocabulary or an insight.
ObsUniverse ==
    { SearchObs("semantic", <<>>, 0),
      SearchObs("exact", <<9, 7>>, 0),
      SearchObs("semantic", <<9, 8>>, 0),
      SearchObs("semantic", <<9, 8, 9>>, 100),
      ActionObs(PyTrue, PyNone, PyNone, 0),
      ActionObs(PyTrue, PyNone, PyNone, 100),
      ActionObs(PyTrue, PyNone, PyNone, 299),
      ActionObs(PyTrue, PyNone, PyNone, 300),
      ActionObs(PyFalse, PyNone, PyNone, 100),
      ActionObs(PyNone, PyTrue, PyNone, 100),
      ActionObs(PyNone, PyTrue, PyNone, 300),
      ActionObs(PyNone, PyNone, PyTrue, 299),
      ActionObs(PyFalse, PyTrue, PyNone, 100),
      ActionObs(PyNone, PyFalse, PyTrue, 100),
      Observation("search", "exact", <<9>>, PyTrue, PyNone, PyNone, {"gtd"}, "", 0),
      PlainObs({"gtd"}, "done"),
      PlainObs({"code"}, "Key insight: restart"),
      PlainObs({"debug"}, "insight found") }

RECURSIVE TracesUpTo(_, _)
\* the traces of at most n observations of universe
TracesUpTo(universe, n) ==
    IF n = 0 THEN {<<>>}
    ELSE LET shorter == TracesUpTo(universe, n - 1)
         IN  shorter \cup {Append(tr, o) : tr \in shorter, o \in universe}

\* min_effectiveness values: 0.5, 0.7, 0.75, 0.85 and 1.0 (thresholds at
\* which the floating-point sums of the code and exact sums agree)
MinEffs == {PScale \div 2, (7 * PScale) \div 10, (3 * PScale) \div 4,
            (17 * PScale) \div 20, PScale}

\* memory_ops: the observations whose metadata marks a search
is_search(obs) == obs.memory_operation = "search"

memory_op_of(obs) ==
    [query |-> obs.input, type |-> obs.search_type, results |-> obs.results,
     timestamp |-> obs.start_time]

\* actions: the if / elif / elif chain over the three outcome keys
is_action(obs) ==
    \/ obs.command_executed # PyNone
    \/ obs.task_completed # PyNone
    \/ obs.error_resolved # PyNone

action_of(obs) ==
    IF obs.command_executed # PyNone
      THEN [type |-> "command", success |-> obs.command_executed,
            timestamp |-> obs.start_time]
    ELSE IF obs.task_completed # PyNone
      THEN [type |-> "task", success |-> obs.task_completed,
            timestamp |-> obs.start_time]
    ELSE [type |-> "error_resolution", success |-> obs.error_resolved,
          timestamp |-> obs.start_time]

RECURSIVE MapSelect(_, _)
\* the memory_ops list (which = "search") or the actions list, in trace order
MapSelect(observations_, which) ==
    IF observations_ = <<>> THEN <<>>
    ELSE LET obs  == Head(observations_)
             rest == MapSelect(Tail(observations_), which)
         IN  IF which = "search"
               THEN (IF is_search(obs) THEN <<memory_op_of(obs)>> ELSE <<>>) \o rest
               ELSE (IF is_action(obs) THEN <<action_of(obs)>> ELSE <<>>) \o rest

\* len([r for r in memory_op['results'] if r.get('score', 0) > 0.7])
high_scores(results) ==
    Cardinality({i \in 1..Len(results) : results[i] > 7})

\* memory_pattern_extractor.py:174-207.  The action dictionary built at
\* lines 122-138 has no 'time_to_action' key, so the default 300 is used.
_calculate_pattern_effectiveness(memory_op, action) ==
    LET base_score == IF action.success = PyTrue
                        THEN (7 * PScale) \div 10 ELSE PScale \div 2
        time_bonus == Max(0, PScale \div 5 - DefaultTimeToAction)
        confidence_bonus ==
            IF memory_op.results # <<>>
              THEN Min(PScale \div 5,
                       (PScale \div 10) * high_scores(memory_op.results))
              ELSE 0
    IN  Min(PScale, base_score + time_bonus + confidence_bonus)

\* Mutant of the pair test: the window includes its end
MutPairWindowInclusive(memory_op, action) ==
    /\ action.timestamp > memory_op.timestamp
    /\ action.timestamp - memory_op.timestamp <= CausalityWindow
    /\ action.success = PyTrue

\* if action['timestamp'] > memory_op['timestamp']: ...
\*     if time_delta < 300 and action['success']:
pair_is_candidate(memory_op, action) ==
    /\ action.timestamp > memory_op.timestamp
    /\ action.timestamp - memory_op.timestamp < CausalityWindow
    /\ action.success = PyTrue

pattern_of(tid, memory_op, action) ==
    [memory_query   |-> memory_op.query,
     memory_type    |-> memory_op.type,
     action_type    |-> action.type,
     time_to_action |-> action.timestamp - memory_op.timestamp,
     trace_id       |-> tid,
     effectiveness  |-> _calculate_pattern_effectiveness(memory_op, action)]

\* Mutants of the threshold test
MutKeepAboveOnly(pattern, min_eff) == pattern.effectiveness > min_eff

MutKeepAll(pattern, min_eff) == TRUE

\* if pattern['effectiveness'] >= min_effectiveness
keeps(pattern, min_eff) == pattern.effectiveness >= min_eff

\* pattern_type = f"memory_to_{action['type']}"
bucket_of(pattern) == "memory_to_" \o pattern.action_type

RECURSIVE kept_patterns(_, _, _, _, _, _)
\* for memory_op in memory_ops: for action in actions: ... append
\* The (bucket, pattern) pairs appended, in the order of the two loops.
kept_patterns(tid, memory_ops, actions, min_eff, i, j) ==
    IF i > Len(memory_ops) THEN <<>>
    ELSE IF j > Len(actions)
      THEN kept_patterns(tid, memory_ops, actions, min_eff, i + 1, 1)
    ELSE LET pattern == pattern_of(tid, memory_ops[i], actions[j])
             here == IF /\ pair_is_candidate(memory_ops[i], actions[j])
                        /\ keeps(pattern, min_eff)
                       THEN <<[bucket |-> bucket_of(pattern), pattern |-> pattern]>>
                       ELSE <<>>
         IN  here \o kept_patterns(tid, memory_ops, actions, min_eff, i, j + 1)

\* str(obs.metadata).lower(): the keywords of the text, those of the keys
\* task_completed and error_resolved included
metadata_words(obs) ==
    obs.vocab
    \cup (IF obs.task_completed # PyNone THEN {"task"} ELSE {})
    \cup (IF obs.error_resolved # PyNone THEN {"error"} ELSE {})

\* Mutant of the cross-domain test: one of the two vocabularies is enough
MutCrossDomainEither(observations_) ==
    LET has_gtd == \E i \in 1..Len(observations_) :
                      metadata_words(observations_[i]) \cap {"gtd", "task"} # {}
        has_coding == \E i \in 1..Len(observations_) :
                      metadata_words(observations_[i]) \cap {"code", "debug"} # {}
    IN  has_gtd \/ has_coding

\* memory_pattern_extractor.py:209-219
_has_cross_domain_pattern(observations_) ==
    LET has_gtd == \E i \in 1..Len(observations_) :
                      metadata_words(observations_[i]) \cap {"gtd", "task"} # {}
        has_coding == \E i \in 1..Len(observations_) :
                      metadata_words(observations_[i]) \cap {"code", "debug"} # {}
    IN  has_gtd /\ has_coding

\* 'insight' in str(obs.output).lower()
InsightOutputs == {"Key insight: restart", "insight found"}

\* memory_pattern_extractor.py:247-252
_extract_insight(observations_) ==
    LET hits == {i \in 1..Len(observations_) :
                    observations_[i].output \in InsightOutputs}
    IN  IF hits = {} THEN "Cross-domain connection identified"
        ELSE observations_[CHOOSE i \in hits : \A k \in hits : i <= k].output

\* _extract_gtd_context / _extract_coding_context: the dictionary is updated
\* from every matching observation, so it holds the values of the last one;
\* it is named here by that observation's position, 0 for the empty dict.
last_matching(observations_, words) ==
    LET hits == {i \in 1..Len(observations_) :
                    metadata_words(observations_[i]) \cap words # {}}
    IN  IF hits = {} THEN 0 ELSE CHOOSE i \in hits : \A k \in hits : i >= k

cross_domain_record(tid, observations_) ==
    [trace_id       |-> tid,
     gtd_context    |-> last_matching(observations_, {"gtd"}),
     coding_context |-> last_matching(observations_, {"code", "error", "debug"}),
     insight        |-> _extract_insight(observations_)]

\* the entries of one bucket, in order
RECURSIVE bucket_entries(_, _)
bucket_entries(pairs, bucket) ==
    IF pairs = <<>> THEN <<>>
    ELSE (IF Head(pairs).bucket = bucket THEN <<Head(pairs).pattern>> ELSE <<>>)
         \o bucket_entries(Tail(pairs), bucket)

\* Mutant of the call: the patterns are collected in self.patterns instead
\* of a dictionary local to the call
MutExtractIntoSelf(self_p, tid, observations_, min_eff) ==
    LET pairs == kept_patterns(tid, MapSelect(observations_, "search"),
                               MapSelect(observations_, "action"), min_eff, 1, 1)
        used  == {pairs[i].bucket : i \in 1..Len(pairs)}
        cross == _has_cross_domain_pattern(observations_)
        keys  == DOMAIN self_p \cup used
                 \cup (IF cross THEN {"cross_domain_insights"} ELSE {})
        all   == [b \in keys |->
                    (IF b \in DOMAIN self_p THEN self_p[b] ELSE <<>>)
                    \o (IF b = "cross_domain_insights"
                          THEN <<cross_domain_record(tid, observations_)>>
                          ELSE bucket_entries(pairs, b))]
    IN  [ret |-> all, self_patterns |-> all]

\* memory_pattern_extractor.py:84-172: one call of
\* self._extract_patterns_from_trace(trace, observations, min_effectiveness)
\* on an instance whose self.patterns is self_p: the mapping it returns and
\* self.patterns after the call.
_extract_patterns_from_trace(self_p, tid, observations_, min_eff) ==
    LET pairs == kept_patterns(tid, MapSelect(observations_, "search"),
                               MapSelect(observations_, "action"), min_eff, 1, 1)
        used  == {pairs[i].bucket : i \in 1..Len(pairs)}
        cross == _has_cross_domain_pattern(observations_)
        keys  == used \cup (IF cross THEN {"cross_domain_insights"} ELSE {})
    IN  [ret |-> [b \in keys |->
                    IF b = "cross_domain_insights"
                      THEN <<cross_domain_record(tid, observations_)>>
                      ELSE bucket_entries(pairs, b)],
         self_patterns |-> self_p]

CorrInit ==
    /\ trace_id = "trace_1"
    /\ observations \in TracesUpTo(ObsUniverse, MaxObs)
    /\ min_effectiveness = (7 * PScale) \div 10      \* the default 0.7
    /\ patterns = EmptyPatterns
    /\ self_patterns = EmptyPatterns
    /\ cpc = "input"
    /\ remembered = NoCall

\* One call of _extract_patterns_from_trace on the trace, with threshold m.
Correlate(m) ==
    /\ cpc = "input"
    /\ \E r \in {_extract_patterns_from_trace(self_patterns, trace_id,
                                              observations, m)} :
          /\ patterns' = r.ret
          /\ self_patterns' = r.self_patterns
    /\ min_effectiveness' = m
    /\ cpc' = "done"
    /\ UNCHANGED <<trace_id, observations>>

InitCorr == CorrInit /\ ScorerIdle /\ TrackIdle /\ DecayIdle /\ LaterIdle

NextCorr ==
    /\ \E m \in MinEffs : Correlate(m)
    /\ UNCHANGED <<remembered, scorerVars, trackVars, decayVars, aggVars,
                   evalVars,
                   extractVars, promptVars>>

SpecCorr == InitCorr /\ [][NextCorr]_vars

-----------------------------------------------------------------------------
(* One extractor instance correlating trace after trace, in any order.      *)
(* remembered keeps the input and the result of one earlier correlation.    *)

MaxPoolObs == 2        \* observations in a trace of the pool

PoolUniverse ==
    { SearchObs("semantic", <<9, 8>>, 0),
      ActionObs(PyTrue, PyNone, PyNone, 100),
      Observation(PyNone, PyNone, <<>>, PyNone, PyTrue, PyNone, {"code"},
                  "Key insight: restart", 299) }

PoolMinEffs == {(7 * PScale) \div 10, PScale}

RepeatInit ==
    /\ trace_id = "trace_1"
    /\ observations = <<>>
    /\ min_effectiveness = (7 * PScale) \div 10
    /\ patterns = EmptyPatterns
    /\ self_patterns = EmptyPatterns
    /\ cpc = "input"
    /\ remembered = NoCall

\* The caller turns to another trace: extract_success_patterns fetches the
\* observations of the next trace (lines 65-69), or a second caller passes its own.
FetchObservations(tr) ==
    /\ observations' = tr
    /\ patterns' = EmptyPatterns
    /\ cpc' = "input"
    /\ UNCHANGED <<trace_id, min_effectiveness, self_patterns, remembered>>

\* A correlation; keep = TRUE files it as the remembered one.  between
\* records that a different input was correlated after the remembered one.
CorrelateAndRemember(m, keep) ==
    /\ Correlate(m)
    /\ IF ~remembered.called
         THEN IF keep
                THEN remembered' = [called |-> TRUE, trace_id |-> trace_id,
                                    observations |-> observations,
                                    min_effectiveness |-> m,
                                    patterns |-> patterns', between |-> FALSE]
                ELSE remembered' = remembered
         ELSE IF remembered.observations # observations
                   \/ remembered.min_effectiveness # m
                THEN remembered' = [remembered EXCEPT !.between = TRUE]
                ELSE remembered' = remembered

InitRepeat == RepeatInit /\ ScorerIdle /\ TrackIdle /\ DecayIdle /\ LaterIdle

NextRepeat ==
    \/ /\ \E tr \in TracesUpTo(PoolUniverse, MaxPoolObs) : FetchObservations(tr)
       /\ UNCHANGED <<scorerVars, trackVars, decayVars, aggVars, evalVars,
                      extractVars, promptVars>>
    \/ /\ \E m \in PoolMinEffs, keep \in BOOLEAN : CorrelateAndRemember(m, keep)
       /\ UNCHANGED <<scorerVars, trackVars, decayVars, aggVars, evalVars,
                      extractVars, promptVars>>

SpecRepeat == InitRepeat /\ [][NextRepeat]_vars

-----------------------------------------------------------------------------
(* Traces of planning and coding vocabulary, correlated once                *)

MaxCrossObs == 3       \* observations in one such trace

\* a search, a command and a task completed after it, a resolved error, and
\* observations carrying planning vocabulary, coding vocabulary with and
\* without an insight in their output, and an insight without vocabulary
CrossUniverse ==
    { SearchObs("semantic", <<9, 8>>, 0),
      ActionObs(PyTrue, PyNone, PyNone, 100),
      ActionObs(PyNone, PyTrue, PyNone, 100),
      ActionObs(PyNone, PyNone, PyTrue, 100),
      PlainObs({"gtd"}, "done"),
      PlainObs({"code"}, "Key insight: restart"),
      PlainObs({"debug"}, "stack trace"),
      PlainObs({}, "insight found") }

CrossInit ==
    /\ trace_id = "trace_1"
    /\ observations \in TracesUpTo(CrossUniverse, MaxCrossObs)
    /\ min_effectiveness = (7 * PScale) \div 10
    /\ patterns = EmptyPatterns
    /\ self_patterns = EmptyPatterns
    /\ cpc = "input"
    /\ remembered = NoCall

InitCross == CrossInit /\ ScorerIdle /\ TrackIdle /\ DecayIdle /\ LaterIdle

NextCross ==
    /\ \E m \in MinEffs : Correlate(m)
    /\ UNCHANGED <<remembered, scorerVars, trackVars, decayVars, aggVars,
                   evalVars,
                   extractVars, promptVars>>

SpecCross == InitCross /\ [][NextCross]_vars

-----------------------------------------------------------------------------
(* MemoryPatternExtractor.extract_success_patterns over the fetched traces  *)

MaxTraces == 2         \* traces returned by fetch_traces

\* trace.id of the traces, by position
TraceIds == <<"trace_1", "trace_2", "trace_3", "trace_4">>

\* the observations of the traces fetch_traces may return: a search followed
\* by a successful command, by a completed task, by a resolved error; a
\* search alone; planning and coding vocabulary without any search
FetchedTraces ==
    { <<SearchObs("semantic", <<9, 8>>, 0), ActionObs(PyTrue, PyNone, PyNone, 100)>>,
      <<SearchObs("semantic", <<9, 8>>, 0), ActionObs(PyNone, PyTrue, PyNone, 100)>>,
      <<SearchObs("exact", <<9, 7>>, 0), ActionObs(PyNone, PyNone, PyTrue, 299)>>,
      <<SearchObs("semantic", <<>>, 0)>>,
      <<PlainObs({"gtd"}, "done"), PlainObs({"code"}, "Key insight: restart")>> }

\* lines 58-63: the dictionary the patterns are collected in
seeded_patterns ==
    [b \in {"memory_to_command", "memory_to_solution",
            "memory_to_task_completion", "cross_domain_insights"} |-> <<>>]

\* Mutant of the failure of a fetch: the patterns collected so far are
\* returned
MutFetchFailureReturnsPartial(collected, fetch) ==
    [kind |-> "returned", patterns |-> collected]

\* fetch_traces / fetch_observations raise outside any try (lines 53, 67):
\* the exception leaves extract_success_patterns
fetch_failure(collected, fetch) ==
    [kind |-> "raised", error |-> "fetch failed", fetch |-> fetch]

\* lines 78-79: patterns[pattern_type].extend(pattern_list) for every type
\* of extracted; a type that is no key of patterns raises KeyError
extend_patterns(collected, extracted) ==
    IF DOMAIN extracted \subseteq DOMAIN collected
      THEN [kind |-> "ok",
            patterns |-> [b \in DOMAIN collected |->
                            collected[b] \o (IF b \in DOMAIN extracted
                                               THEN extracted[b] ELSE <<>>)]]
      ELSE [kind |-> "raised"]

\* lines 65-82: the loop over traces.data from trace i on; log holds the
\* fetches made so far
RECURSIVE extract_loop(_, _, _, _, _, _)
extract_loop(traces, fail, min_eff, i, collected, log) ==
    IF i > Len(traces)
      THEN [result |-> [kind |-> "returned", patterns |-> collected],
            log |-> log]
    ELSE IF fail = TraceIds[i]
      THEN [result |-> fetch_failure(collected, TraceIds[i]),
            log |-> Append(log, TraceIds[i])]
    ELSE LET extracted == _extract_patterns_from_trace(
                              EmptyPatterns, TraceIds[i], traces[i], min_eff).ret
             extended == extend_patterns(collected, extracted)
         IN  IF extended.kind = "raised"
               THEN [result |-> [kind |-> "raised", error |-> "KeyError"],
                     log |-> Append(log, TraceIds[i])]
               ELSE extract_loop(traces, fail, min_eff, i + 1,
                                 extended.patterns,
                                 Append(log, TraceIds[i]))

\* memory_pattern_extractor.py:31-82: one call
extract_success_patterns(configured, traces, fail, min_eff) ==
    IF ~configured
      THEN [result |-> [kind |-> "returned", patterns |-> EmptyPatterns],
            log |-> <<>>]
    ELSE IF fail = "traces"
      THEN [result |-> fetch_failure(seeded_patterns, "traces"),
            log |-> <<"traces">>]
    ELSE extract_loop(traces, fail, min_eff, 1, seeded_patterns, <<"traces">>)

\* the fetch that raises, if it is made
FailingFetches(traces) ==
    {"none", "traces"} \cup {TraceIds[i] : i \in 1..Len(traces)}

ExtractInit ==
    /\ ex_langfuse \in BOOLEAN
    /\ ex_traces \in TracesUpTo(FetchedTraces, MaxTraces)
    /\ ex_fail \in FailingFetches(ex_traces)
    /\ ex_min_effectiveness = (7 * PScale) \div 10     \* the default 0.7
    /\ ex_result = [kind |-> "none"]
    /\ fetch_log = <<>>
    /\ xpc = "input"

\* patterns = await extract_success_patterns(min_effectiveness=m)
ExtractSuccessPatterns(m) ==
    /\ xpc = "input"
    /\ \E r \in {extract_success_patterns(ex_langfuse, ex_traces, ex_fail, m)} :
          /\ ex_result' = r.result
          /\ fetch_log' = r.log
    /\ ex_min_effectiveness' = m
    /\ xpc' = "done"
    /\ UNCHANGED <<ex_langfuse, ex_traces, ex_fail>>
    /\ UNCHANGED <<scorerVars, trackVars, corrVars, decayVars, aggVars,
                   evalVars, promptVars>>

InitExtract ==
    /\ ExtractInit /\ ScorerIdle /\ TrackIdle /\ CorrIdle /\ DecayIdle
    /\ AggIdle /\ EvalIdle /\ PromptIdle

NextExtract == \E m \in MinEffs : ExtractSuccessPatterns(m)

SpecExtract == InitExtract /\ [][NextExtract]_vars

-----------------------------------------------------------------------------
(* MemoryPromptManager.get_prompt (src/prompt_manager.py)                   *)

MaxGets == 2           \* get_prompt calls in one behaviour
MaxTicks == 2          \* times the clock is moved in one behaviour

DefaultCacheTtl == 60                \* self.cache_ttl = 60
SecondsPerDay == 24 * 60 * 60        \* timedelta.seconds counts within a day

\* a template is a sequence of text pieces and {{key}} placeholders
Text(t) == [kind |-> "text", value |-> t]
Placeholder(key) == [kind |-> "placeholder", value |-> key]

\* self.fallback_prompts, as loaded from the YAML files
fallback_prompts ==
    [n \in {"memory_search_exact"} |->
        [prompt |-> <<Text("Search for exact match: "), Placeholder("query")>>,
         config |-> "fallback config"]]

\* the prompts Langfuse holds
langfuse_prompts ==
    [n \in {"memory_search_exact", "memory_search_draft"} |->
        [prompt |-> <<Text("Find in memory: "), Placeholder("query"),
                      Text(" for "), Placeholder("user")>>,
         config |-> "langfuse config"]]

\* prompt_manager.py:44-58: self.langfuse after construction
_init_langfuse(env) ==
    env.public_key /\ env.secret_key /\ ~env.client_raises

\* Mutant of the compilation: the template is returned as it is
MutCompileKeepsPlaceholders(template, config, variables) ==
    [prompt |-> template, config |-> config, template |-> template,
     variables |-> variables]

\* prompt_manager.py:143-172: every {{key}} of a variable is replaced by
\* str(value)
_compile_prompt(template, config, variables) ==
    [prompt |-> [i \in 1..Len(template) |->
                    IF /\ template[i].kind = "placeholder"
                       /\ template[i].value \in DOMAIN variables
                      THEN Text(variables[template[i].value])
                      ELSE template[i]],
     config |-> config, template |-> template, variables |-> variables]

\* cache_key = f"{name}:{version}:{label}", version None
cache_key(name, label) == name \o ":None:" \o label

\* (datetime.now() - cached['timestamp']).seconds
timedelta_seconds(delta) == delta % SecondsPerDay

\* lines 97-101: the cache holds the key and the entry passes the test
cache_hit(cache, key, now_, cache_ttl) ==
    /\ key \in DOMAIN cache
    /\ timedelta_seconds(now_ - cache[key].timestamp) < cache_ttl

\* self.cache[cache_key] = {...}
cache_put(cache, key, entry) ==
    [k \in DOMAIN cache \cup {key} |-> IF k = key THEN entry ELSE cache[k]]

\* prompt_manager.py:72-141: one call.  ttl_arg 0 stands for cache_ttl None;
\* raises: langfuse.get_prompt raises if it is called.
get_prompt(client, cache, now_, name, label, ttl_arg, variables, raises) ==
    LET cache_ttl == IF ttl_arg = 0 THEN DefaultCacheTtl ELSE ttl_arg
        key == cache_key(name, label)
    IN  IF cache_hit(cache, key, now_, cache_ttl)
          THEN [kind |-> "returned", log |-> "Using cached prompt",
                value |-> _compile_prompt(cache[key].prompt, cache[key].config,
                                          variables),
                cache |-> cache, fetched |-> FALSE]
        ELSE IF client /\ ~raises
          THEN [kind |-> "returned", log |-> "Retrieved prompt from Langfuse",
                value |-> _compile_prompt(langfuse_prompts[name].prompt,
                                          langfuse_prompts[name].config,
                                          variables),
                cache |-> cache_put(cache, key,
                              [prompt |-> langfuse_prompts[name].prompt,
                               config |-> langfuse_prompts[name].config,
                               timestamp |-> now_]),
                fetched |-> TRUE]
        ELSE IF name \in DOMAIN fallback_prompts
          THEN [kind |-> "returned", log |-> "Using fallback prompt",
                value |-> _compile_prompt(fallback_prompts[name].prompt,
                                          fallback_prompts[name].config,
                                          variables),
                cache |-> cache, fetched |-> client]
        ELSE [kind |-> "raised", log |-> "Prompt not found",
              value |-> <<>>, cache |-> cache, fetched |-> client]

\* the environments the manager is constructed in: both credentials, both
\* with a client that cannot be constructed, and no public key
Environments ==
    { [public_key |-> TRUE,  secret_key |-> TRUE, client_raises |-> FALSE],
      [public_key |-> TRUE,  secret_key |-> TRUE, client_raises |-> TRUE],
      [public_key |-> FALSE, secret_key |-> TRUE, client_raises |-> FALSE] }

\* the get_prompt calls made: name, label, cache_ttl (0: None), variables
Requests ==
    { [name |-> "memory_search_exact", label |-> "production", cache_ttl |-> 0,
       variables |-> [query |-> "test query"]],
      [name |-> "memory_search_exact", label |-> "None", cache_ttl |-> 0,
       variables |-> [query |-> "test query"]],
      [name |-> "memory_search_exact", label |-> "production", cache_ttl |-> 30,
       variables |-> [query |-> "docker ssl error"]],
      [name |-> "memory_search_draft", label |-> "production", cache_ttl |-> 0,
       variables |-> <<>>] }

\* by how much the clock is moved: half a minute, or half a minute less
\* than a day
ClockSteps == {30, SecondsPerDay - 30}

PromptInit ==
    /\ pm_env \in Environments
    /\ pm_langfuse = _init_langfuse(pm_env)
    /\ pm_cache = <<>>
    /\ pm_now = 0
    /\ pm_ticks = 0
    /\ pm_gets = 0
    /\ pm_call = [made |-> FALSE]
    /\ pm_result = [kind |-> "none"]

\* prompt = get_prompt(name, label=label, cache_ttl=cache_ttl, **variables)
GetPrompt(request, fetch_raises) ==
    /\ pm_gets < MaxGets
    /\ fetch_raises => pm_langfuse
    /\ \E r \in {get_prompt(pm_langfuse, pm_cache, pm_now, request.name,
                            request.label, request.cache_ttl,
                            request.variables, fetch_raises)} :
          /\ pm_cache' = r.cache
          /\ pm_result' = [kind |-> r.kind, log |-> r.log, value |-> r.value]
          /\ pm_call' = [made |-> TRUE, request |-> request, at |-> pm_now,
                         fetch_raises |-> fetch_raises, fetched |-> r.fetched,
                         cache_before |-> pm_cache]
    /\ pm_gets' = pm_gets + 1
    /\ UNCHANGED <<pm_env, pm_langfuse, pm_now, pm_ticks>>
    /\ UNCHANGED <<scorerVars, trackVars, corrVars, decayVars, aggVars,
                   evalVars, extractVars>>

\* time passes between two calls
Tick(step) ==
    /\ pm_ticks < MaxTicks
    /\ pm_now' = pm_now + step
    /\ pm_ticks' = pm_ticks + 1
    /\ UNCHANGED <<pm_env, pm_langfuse, pm_cache, pm_gets, pm_call, pm_result>>
    /\ UNCHANGED <<scorerVars, trackVars, corrVars, decayVars, aggVars,
                   evalVars, extractVars>>

InitPrompt ==
    /\ PromptInit /\ ScorerIdle /\ TrackIdle /\ CorrIdle /\ DecayIdle
    /\ AggIdle /\ EvalIdle /\ ExtractIdle

NextPrompt ==
    \/ \E request \in Requests, fetch_raises \in BOOLEAN :
           GetPrompt(request, fetch_raises)
    \/ \E step \in ClockSteps : Tick(step)

SpecPrompt == InitPrompt /\ [][NextPrompt]_vars

-----------------------------------------------------------------------------
(* One memory record over time: created by the factory, read by its callers,*)
(* tracked by track_memory_application, while days pass.                    *)

MaxAge      == 31      \* a record is created with age_days in 0..MaxAge
MaxDays     == 1       \* days that pass after the record was created
MaxOutcomes == 2       \* outcomes tracked for the record

\* the ages past a month that the tests create records with
OldAges == {60, 90}

FactoryAges == (0..MaxAge) \cup OldAges

\* memory_factory(age_days=60, confidence=0.7)
FactoryConfidences == {7 * Tenth}

\* the result dictionaries tracked for the record: the success
\* {'exit_code': 0} and the failure {'exit_code': 1}
OutcomeResults ==
    { [EmptyResult EXCEPT !.has_exit_code = TRUE],
      [EmptyResult EXCEPT !.has_exit_code = TRUE, !.exit_code = 1] }

\* a MemoryOperations instance with a memory client and no Langfuse client
TrackWithStore ==
    /\ memory = TRUE
    /\ langfuse = FALSE
    /\ confidence = 0
    /\ old_confidence = 0
    /\ calls = 0
    /\ last_result = EmptyResult
    /\ update = "none"
    /\ score_delta = 0
    /\ updates = 0
    /\ returned = NoReturn

\* memory = memory_factory(memory_type, age_days, confidence, superseded)
CreateMemory(memory_type, age, conf, sup) ==
    /\ mem_type = ""
    /\ \E m \in {create_memory(memory_type, age, conf, sup, now)} :
          /\ mem_type' = m.type
          /\ created_at' = m.created_at
          /\ confidence' = m.confidence
          /\ old_confidence' = m.confidence
          /\ superseded' = m.superseded
          /\ temporal_weight' = m.temporal_weight
    /\ age_days' = age
    /\ UNCHANGED <<memory, langfuse, calls, last_result, update, score_delta,
                   updates, returned, now, read, memories, rateVars,
                   scorerVars, corrVars, aggVars, evalVars,
                   extractVars, promptVars>>

\* a day passes; nothing is written
AdvanceClock ==
    /\ now < MaxDays
    /\ now' = now + 1
    /\ UNCHANGED <<mem_type, age_days, created_at, superseded, temporal_weight,
                   read, memories, rateVars, scorerVars, trackVars, corrVars,
                   aggVars, evalVars,
                   extractVars, promptVars>>

\* A caller reads the record: the age from created_at and the clock, the
\* weight from the record, halved by the caller for a superseded record.
ReadMemory ==
    /\ mem_type # ""
    /\ LET age == now - created_at
       IN  read' = [done |-> TRUE,
                    age |-> age,
                    temporal_weight |-> temporal_weight,
                    weight |-> IF superseded
                                 THEN superseded_weight(temporal_weight)
                                 ELSE temporal_weight,
                    is_historical |-> is_historical(age),
                    recommendation |-> recommendation(age)]
    /\ UNCHANGED <<mem_type, age_days, created_at, superseded, temporal_weight,
                   now, memories, rateVars, scorerVars, trackVars, corrVars,
                   aggVars, evalVars,
                   extractVars, promptVars>>

\* track_memory_application for the record
TrackOutcome(result, store_raises) ==
    /\ mem_type # ""
    /\ calls < MaxOutcomes
    /\ track_memory_application(result, store_raises)

InitDecay == TrackWithStore /\ ScorerIdle /\ CorrIdle /\ DecayIdle /\ LaterIdle

NextDecay ==
    \/ \E t \in MemoryTypes, a \in FactoryAges, c \in FactoryConfidences,
          sup \in BOOLEAN : CreateMemory(t, a, c, sup)
    \/ AdvanceClock
    \/ ReadMemory
    \/ \E result \in OutcomeResults, store_raises \in BOOLEAN :
          TrackOutcome(result, store_raises)

SpecDecay == InitDecay /\ [][NextDecay]_vars

-----------------------------------------------------------------------------
(* Records created one after the other, as the tests build their lists *)

MaxMemories == 2       \* records in the list

\* every age_days the tests pass to memory_factory
TestAges == {0, 1, 3, 5, 7, 10, 14, 29, 30, 31, 35, 60, 90, 100}

\* memories.append(memory_factory(memory_type, age_days)), with the default
\* confidence 0.8 and superseded False
AppendMemory(memory_type, age) ==
    /\ Len(memories) < MaxMemories
    /\ memories' = Append(memories,
                          create_memory(memory_type, age, 8 * Tenth, FALSE, now))
    /\ UNCHANGED <<memVars, temporal_weight, rateVars, scorerVars, trackVars,
                   corrVars, aggVars, evalVars,
                   extractVars, promptVars>>

InitFactory == TrackIdle /\ ScorerIdle /\ CorrIdle /\ DecayIdle /\ LaterIdle

NextFactory == \E t \in MemoryTypes, a \in TestAges : AppendMemory(t, a)

SpecFactory == InitFactory /\ [][NextFactory]_vars

-----------------------------------------------------------------------------
(* The per-type decay table applied to one age *)

MaxRateAge == 200      \* the table is applied to age_days in 0..MaxRateAge

RatesInit ==
    /\ mem_type = ""
    /\ age_days = 0
    /\ created_at = 0
    /\ superseded = FALSE
    /\ temporal_weight = F_1_0
    /\ now = 0
    /\ read = NoRead
    /\ memories = <<>>
    /\ rate_age \in 0..MaxRateAge
    /\ type_weights = <<>>
    /\ rpc = "input"

\* the loop of test_decay_rate_customization
DecayRateCustomization ==
    /\ rpc = "input"
    /\ type_weights' = customized_weights(rate_age)
    /\ rpc' = "done"
    /\ UNCHANGED <<memVars, temporal_weight, memories, rate_age, scorerVars,
                   trackVars, corrVars, aggVars, evalVars,
                   extractVars, promptVars>>

InitRates == RatesInit /\ TrackIdle /\ ScorerIdle /\ CorrIdle /\ LaterIdle

NextRates == DecayRateCustomization

SpecRates == InitRates /\ [][NextRates]_vars

-----------------------------------------------------------------------------
(* The aggregator: identify_prompt_improvements(patterns) *)

MaxSamples == 3        \* patterns in the dictionary handed to the aggregator

\* the buckets of the patterns dictionary, in the order the extractor
\* inserts them
BucketOrder == <<"memory_to_command", "memory_to_solution",
                 "memory_to_task_completion", "cross_domain_insights">>

\* for pattern_type, pattern_list in patterns.items():
\*     for pattern in pattern_list:          -- the patterns, in that order
RECURSIVE patterns_in_order(_, _)
patterns_in_order(p, i) ==
    IF i > Len(BucketOrder) THEN <<>>
    ELSE (IF BucketOrder[i] \in DOMAIN p THEN p[BucketOrder[i]] ELSE <<>>)
         \o patterns_in_order(p, i + 1)

\* f"memory_search_{pattern['memory_type']}"
prompt_name_of(pattern) == "memory_search_" \o pattern.memory_type

\* pattern.get('effectiveness', 0.5)
effectiveness_of(pattern) ==
    IF "effectiveness" \in DOMAIN pattern THEN pattern.effectiveness ELSE F_0_5

\* prompt_effectiveness[prompt_name].append(score), on the dictionary kept
\* as the list of its entries in insertion order
append_score(pe, name, score) ==
    IF \E i \in 1..Len(pe) : pe[i].prompt = name
      THEN [i \in 1..Len(pe) |->
              IF pe[i].prompt = name
                THEN [pe[i] EXCEPT !.scores = Append(@, score)]
                ELSE pe[i]]
      ELSE Append(pe, [prompt |-> name, scores |-> <<score>>])

\* lines 340-348: the scores of every pattern that has a memory_type
RECURSIVE prompt_effectiveness(_)
prompt_effectiveness(ps) ==
    IF ps = <<>> THEN <<>>
    ELSE LET before  == prompt_effectiveness(SubSeq(ps, 1, Len(ps) - 1))
             pattern == ps[Len(ps)]
         IN  IF "memory_type" \in DOMAIN pattern
               THEN append_score(before, prompt_name_of(pattern),
                                 effectiveness_of(pattern))
               ELSE before

\* avg_score = sum(scores) / len(scores) if scores else 0
avg_score(scores) ==
    IF scores = <<>> THEN <<0, 0, 0>>
    ELSE float_div(float_sum(scores), Len(scores))

\* lines 351-367: the suggestions made for one prompt (none or one)
suggestions_for(entry) ==
    LET avg == avg_score(entry.scores)
        suggestion(text) == <<[prompt |-> entry.prompt,
                               current_effectiveness |-> avg,
                               recommendation |-> text,
                               sample_size |-> Len(entry.scores)]>>
    IN  IF WideLess(avg, F_0_6)
          THEN suggestion("Consider revising - low effectiveness")
        ELSE IF WideLess(F_0_8, avg)
          THEN suggestion("High performer - use as template")
        ELSE <<>>

RECURSIVE all_suggestions(_)
all_suggestions(pe) ==
    IF pe = <<>> THEN <<>>
    ELSE suggestions_for(Head(pe)) \o all_suggestions(Tail(pe))

identify_prompt_improvements(p) ==
    all_suggestions(prompt_effectiveness(patterns_in_order(p, 1)))

\* the effectiveness values of the samples
SampleScores == {F_0_3, F_0_4, F_0_5, F_0_6, F_0_8, F_0_85, F_0_9, F_0_95}

\* the patterns handed in: correlated patterns of two memory types, a
\* pattern without an effectiveness, and a record without a memory_type
SamplePatterns ==
    {[memory_type |-> t, effectiveness |-> e] :
        t \in {"semantic", "temporal"}, e \in SampleScores}
    \cup {[memory_type |-> "semantic"], [insight |-> "Cross-domain pattern detected"]}

ImproveInit ==
    /\ trace_id = ""
    /\ observations = <<>>
    /\ min_effectiveness = 0
    /\ patterns \in {[b \in {"memory_to_command"} |-> ps] :
                        ps \in TracesUpTo(SamplePatterns, MaxSamples)}
    /\ self_patterns = EmptyPatterns
    /\ cpc = "idle"
    /\ remembered = NoCall
    /\ improvements = <<>>
    /\ ipc = "input"

\* improvements = await identify_prompt_improvements(patterns)
IdentifyPromptImprovements ==
    /\ ipc = "input"
    /\ improvements' = identify_prompt_improvements(patterns)
    /\ ipc' = "done"
    /\ UNCHANGED <<scorerVars, trackVars, corrVars, decayVars, evalVars,
                   extractVars, promptVars>>

InitImprove ==
    /\ ImproveInit /\ ScorerIdle /\ TrackIdle /\ DecayIdle /\ EvalIdle
    /\ ExtractIdle /\ PromptIdle

NextImprove == IdentifyPromptImprovements

SpecImprove == InitImprove /\ [][NextImprove]_vars

-----------------------------------------------------------------------------
(* MemoryEvaluators.run_dataset_evaluation (src/memory_evaluators.py)      *)

\* bounds of the evaluation runs
MaxItems == 3
MaxVariants == 2

\* the names in prompt_variants, and the prompts get_prompt may be asked for
VariantNames == {"control", "treatment"}
PromptNames == {"memory_search_" \o v : v \in VariantNames \cup {"production"}}

\* hash(str(item)) of the dataset items: residues 0, 10 and 29 of every
\* modulus, and 30, whose residue differs with the evaluator
ItemHashes == {0, 10, 29, 30}

EvaluatorNames ==
    {"memory_relevance_judge", "cross_domain_discovery_judge", "custom_judge"}

\* lines 474-479: the score of one item; item is hash(str(item))
evaluate_single_item(item, evaluator) ==
    IF evaluator = "memory_relevance_judge"
      THEN float_add(F_0_7, float_div(float_of(item % 30), 100))
    ELSE IF evaluator = "cross_domain_discovery_judge"
      THEN float_add(F_0_6, float_div(float_of(item % 40), 100))
    ELSE float_add(F_0_5, float_div(float_of(item % 50), 100))

\* variant_scores after the loop over dataset.items (the same for every variant)
RECURSIVE variant_scores(_, _)
variant_scores(items, evaluator) ==
    IF items = <<>> THEN <<>>
    ELSE <<evaluate_single_item(Head(items), evaluator)>>
             \o variant_scores(Tail(items), evaluator)

\* min(variant_scores) and max(variant_scores) of a non-empty list
RECURSIVE float_min(_)
float_min(scores) ==
    IF Len(scores) = 1 THEN scores[1]
    ELSE LET rest == float_min(Tail(scores))
         IN  IF WideLess(rest, Head(scores)) THEN rest ELSE Head(scores)

RECURSIVE float_max(_)
float_max(scores) ==
    IF Len(scores) = 1 THEN scores[1]
    ELSE LET rest == float_max(Tail(scores))
         IN  IF WideLess(Head(scores), rest) THEN rest ELSE Head(scores)

\* lines 436-441: the statistics stored under results["variants"][variant]
variant_stats(variant, scores) ==
    [variant     |-> variant,
     avg_score   |-> IF scores = <<>> THEN <<0, 0, 0>>
                     ELSE float_div(float_sum(scores), Len(scores)),
     min_score   |-> IF scores = <<>> THEN <<0, 0, 0>> ELSE float_min(scores),
     max_score   |-> IF scores = <<>> THEN <<0, 0, 0>> ELSE float_max(scores),
     sample_size |-> Len(scores)]

\* results["variants"][variant] = ...: a dict keeps the position of a key
\* it already holds and appends a new one
RECURSIVE dict_set(_, _)
dict_set(dict, entry) ==
    IF dict = <<>> THEN <<entry>>
    ELSE IF Head(dict).variant = entry.variant THEN <<entry>> \o Tail(dict)
    ELSE <<Head(dict)>> \o dict_set(Tail(dict), entry)

\* lines 420-441: results["variants"] after the loop over the variants
RECURSIVE evaluate_variants(_, _, _)
evaluate_variants(variants, scores, dict) ==
    IF variants = <<>> THEN dict
    ELSE evaluate_variants(Tail(variants), scores,
                           dict_set(dict, variant_stats(Head(variants), scores)))

\* lines 445-448: max(keys, key=avg_score) keeps the first key of the
\* largest avg_score
RECURSIVE max_by_avg_score(_)
max_by_avg_score(dict) ==
    IF Len(dict) = 1 THEN dict[1]
    ELSE LET rest == max_by_avg_score(Tail(dict))
         IN  IF WideLess(Head(dict).avg_score, rest.avg_score)
               THEN rest ELSE Head(dict)

\* lines 403-455: what one call returns
run_dataset_evaluation(configured, variants_arg, items, evaluator, known) ==
    IF ~configured THEN [kind |-> "empty"]
    ELSE LET variants == IF variants_arg = <<>> THEN <<"production">>
                         ELSE variants_arg
             \* get_prompt raises for a prompt it does not find (line 425),
             \* once there is an item to ask it for
             raises == /\ items # <<>>
                       /\ \E i \in 1..Len(variants) :
                              ("memory_search_" \o variants[i]) \notin known
             dict == evaluate_variants(variants,
                                       variant_scores(items, evaluator), <<>>)
         IN  IF raises THEN [kind |-> "error"]
             ELSE IF Len(variants) > 1
               THEN [kind |-> "results", evaluator |-> evaluator,
                     variants |-> dict, has_winner |-> TRUE,
                     winner |-> max_by_avg_score(dict).variant]
             ELSE [kind |-> "results", evaluator |-> evaluator,
                   variants |-> dict, has_winner |-> FALSE, winner |-> ""]

EvalInit ==
    /\ ev_langfuse \in BOOLEAN
    /\ prompt_variants \in TracesUpTo(VariantNames, MaxVariants)
    /\ dataset_items \in TracesUpTo(ItemHashes, MaxItems)
    /\ evaluator_name \in EvaluatorNames
    /\ known_prompts \in {PromptNames, PromptNames \ {"memory_search_treatment"}}
    /\ eval_results = <<>>
    /\ epc = "input"

\* results = await run_dataset_evaluation(dataset_name, evaluator_name,
\*                                        prompt_variants)
RunDatasetEvaluation ==
    /\ epc = "input"
    /\ eval_results' = run_dataset_evaluation(ev_langfuse, prompt_variants,
                           dataset_items, evaluator_name, known_prompts)
    /\ epc' = "done"
    /\ UNCHANGED <<ev_langfuse, prompt_variants, dataset_items,
                   evaluator_name, known_prompts>>
    /\ UNCHANGED <<scorerVars, trackVars, corrVars, decayVars, aggVars,
                   extractVars, promptVars>>

InitEval ==
    /\ EvalInit /\ ScorerIdle /\ TrackIdle /\ CorrIdle /\ DecayIdle /\ AggIdle
    /\ ExtractIdle /\ PromptIdle

NextEval == RunDatasetEvaluation

SpecEval == InitEval /\ [][NextEval]_vars

-----------------------------------------------------------------------------
(* The signed deltas of the incremental form (tests/conftest.py), in tenths *)

signal_score_delta(key, value) ==
    CASE key = "command_executed" -> IF value = PyTrue THEN 3 ELSE -1
      [] key = "tests_passed"     -> IF value = PyTrue THEN 4 ELSE -2
      [] key = "task_completed"   -> IF value = PyTrue THEN 5 ELSE 0
      [] key = "error_resolved"   -> IF value = PyTrue THEN 4 ELSE -1
      [] key = "file_modified"    -> IF value = PyTrue THEN 2 ELSE 0

\* min(max(x, 0.0), 1.0)
Clamp01(x) == Max(0, Min(Scale, x))

-----------------------------------------------------------------------------
(* Claims about the scorer and application tracking *)

\* C1: for every mapping of the recognised indicators to true, false or null
\* the scorer returns a value in [0,1].
ScoreWithinUnitInterval ==
    sc = "scored" => (0 <= effectiveness /\ effectiveness <= Scale)

\* a mapping of all five indicators, some true and some false, was scored
\* strictly between 0 and 1
MixedMappingScored ==
    /\ sc = "scored"
    /\ DOMAIN indicators = IndicatorKeys
    /\ \E k \in IndicatorKeys : indicators[k] = PyTrue
    /\ \E k \in IndicatorKeys : indicators[k] = PyFalse
    /\ 0 < effectiveness /\ effectiveness < Scale

\* C2: the confidence obtained by applying every update handed to the store
\* stays within [0,1].
StoredConfidenceInUnitInterval ==
    0 <= confidence /\ confidence <= Scale

\* C7: the score is exactly 0.5 when no recognised indicator is non-null, and
\* it equals the score of the same mapping with its null entries removed.
NullIsNoEvidence ==
    sc = "scored" =>
        /\ (NonNull(indicators) = {} => effectiveness = Half)
        /\ effectiveness = _calculate_effectiveness(WithoutNulls(indicators))

\* a mapping holding a null entry next to a true and a false one was scored
NullAmongEvidenceScored ==
    /\ sc = "scored"
    /\ \E k \in DOMAIN indicators \cap IndicatorKeys : indicators[k] = PyNone
    /\ \E k \in DOMAIN indicators \cap IndicatorKeys : indicators[k] = PyTrue
    /\ \E k \in DOMAIN indicators \cap IndicatorKeys : indicators[k] = PyFalse

\* the mapping with indicator k present and false
SetFalse(ind, k) ==
    [x \in DOMAIN ind \cup {k} |-> IF x = k THEN PyFalse ELSE ind[x]]

\* C8: changing one indicator from null (or absent) to false never raises the
\* score, and strictly lowers it when some other indicator is true.
FalseLowersScore ==
    sc = "scored" =>
        \A k \in IndicatorKeys :
            ~counted(indicators, k) =>
                /\ _calculate_effectiveness(SetFalse(indicators, k)) <= effectiveness
                /\ (\E j \in IndicatorKeys \ {k} : truthy(indicators, j))
                     => _calculate_effectiveness(SetFalse(indicators, k)) < effectiveness

\* a mapping with a null indicator and another true one was scored
NullNextToTrueScored ==
    /\ sc = "scored"
    /\ \E k \in IndicatorKeys : k \in DOMAIN indicators /\ indicators[k] = PyNone
    /\ \E j \in IndicatorKeys : truthy(indicators, j)
    /\ effectiveness > 0

\* C9: with at least one recognised indicator non-null, the score is 1.0 if
\* all of them are true and 0.0 if all are false; a tracked result holding
\* only exit_code 0 reports effectiveness 1.0, whatever clients are configured.
UnanimousIndicatorsScore ==
    calls > 0 =>
        /\ (NonNull(indicators) # {} /\ \A k \in NonNull(indicators) : indicators[k] = PyTrue)
             => returned.effectiveness = Scale
        /\ (NonNull(indicators) # {} /\ \A k \in NonNull(indicators) : indicators[k] = PyFalse)
             => returned.effectiveness = 0
        /\ last_result = [EmptyResult EXCEPT !.has_exit_code = TRUE]
             => (returned.effectiveness = Scale /\ returned.effectiveness > 0)

\* a result holding only exit_code 0 was tracked with neither a Langfuse
\* client nor a memory client
ExitCodeZeroTrackedWithoutClients ==
    /\ calls > 0
    /\ ~memory /\ ~langfuse
    /\ last_result = [EmptyResult EXCEPT !.has_exit_code = TRUE]
    /\ returned.effectiveness = Scale

\* C10: one indicator outcome applied to the stored confidence yields
\* clamp(old_confidence + delta, 0, 1) with the signed delta of that outcome.
SingleOutcomeAppliesSignedDelta ==
    (calls > 0 /\ memory /\ update # "raised") =>
        \A k \in IndicatorKeys :
            NonNull(indicators) = {k} =>
                confidence =
                    Clamp01(old_confidence
                            + signal_score_delta(k, indicators[k]) * Tenth)

StoreFailureIsSwallowed ==
    (calls > 0 /\ update = "raised") =>
        /\ returned.memory_id = "mem_123"
        /\ returned.success_indicators = success_indicators(last_result)
        /\ returned.effectiveness
               = _calculate_effectiveness(success_indicators(last_result))
        /\ updates = 1
        /\ confidence = old_confidence

\* a completed task was tracked while the store was failing
CompletedTaskTrackedWhileStoreFails ==
    /\ calls > 0
    /\ update = "raised"
    /\ last_result.task_completed = PyTrue
    /\ returned.effectiveness > Half
    /\ returned.success_indicators["task_completed"] = PyTrue
    /\ updates = 1

-----------------------------------------------------------------------------
(* Claims about the correlator *)

\* the memory-to-action buckets of the returned mapping
ActionBuckets == DOMAIN patterns \ {"cross_domain_insights"}

RECURSIVE SumLen(_, _)
SumLen(f, keys) ==
    IF keys = {} THEN 0
    ELSE LET b == CHOOSE x \in keys : TRUE
         IN  Len(f[b]) + SumLen(f, keys \ {b})

\* number of memory-to-action patterns returned
PatternCount == SumLen(patterns, ActionBuckets)

Searches == {i \in 1..Len(observations) :
                observations[i].memory_operation = "search"}

Actions == {j \in 1..Len(observations) :
                \/ observations[j].command_executed # PyNone
                \/ observations[j].task_completed # PyNone
                \/ observations[j].error_resolved # PyNone}

\* the outcome the if/elif chain reads for an action observation
ActionType(o) ==
    IF o.command_executed # PyNone THEN "command"
    ELSE IF o.task_completed # PyNone THEN "task" ELSE "error_resolution"

ActionSucceeded(o) ==
    IF o.command_executed # PyNone THEN o.command_executed = PyTrue
    ELSE IF o.task_completed # PyNone THEN o.task_completed = PyTrue
    ELSE o.error_resolved = PyTrue

Delay(i, j) == observations[j].start_time - observations[i].start_time

\* the (search, action) pairs inside the causality window with a success
CausalPairs ==
    {<<i, j>> \in Searches \X Actions :
        /\ Delay(i, j) > 0
        /\ Delay(i, j) < 300
        /\ ActionSucceeded(observations[j])}

PairEffectiveness(i, j) ==
    _calculate_pattern_effectiveness(memory_op_of(observations[i]),
                                     action_of(observations[j]))

\* C3: every emitted memory-to-action pattern pairs a search with a
\* successful action strictly later and less than 300 s later; pairs outside
\* the window or with a failed action yield nothing, so a search with no such
\* action yields zero patterns.
EmittedPatternsAreCausal ==
    cpc = "done" =>
        /\ \A b \in ActionBuckets : \A k \in 1..Len(patterns[b]) :
              \E pr \in CausalPairs :
                  /\ patterns[b][k].time_to_action = Delay(pr[1], pr[2])
                  /\ patterns[b][k].memory_query = observations[pr[1]].input
                  /\ patterns[b][k].action_type = ActionType(observations[pr[2]])
        /\ PatternCount <= Cardinality(CausalPairs)
        /\ (CausalPairs = {} => ActionBuckets = {})

\* a trace whose search is followed by a success 299 s later and by another
\* exactly 300 s later was correlated: one pattern only
WindowEdgeCorrelated ==
    /\ cpc = "done"
    /\ \E i \in Searches, j \in Actions, k \in Actions :
          /\ Delay(i, j) = 299 /\ ActionSucceeded(observations[j])
          /\ Delay(i, k) = 300 /\ ActionSucceeded(observations[k])
    /\ PatternCount = 1

DelayEffectiveness(i, j) ==
    Min(PScale,
        (7 * PScale) \div 10
        + Max(0, PScale \div 5 - Delay(i, j))
        + Min(PScale \div 5,
              (PScale \div 10) * high_scores(observations[i].results)))

\* C25: the effectiveness of an emitted pattern is min(1, 0.7 + time bonus of
\* the pair's own search-to-action delay + confidence bonus), so that of two
\* successful pairs of one search the quicker one scores strictly higher
\* unless clamped at 1.
EffectivenessRewardsSpeed ==
    cpc = "done" =>
        \A b \in ActionBuckets : \A k \in 1..Len(patterns[b]) :
            \E pr \in CausalPairs :
                /\ patterns[b][k].time_to_action = Delay(pr[1], pr[2])
                /\ patterns[b][k].memory_query = observations[pr[1]].input
                /\ patterns[b][k].effectiveness = DelayEffectiveness(pr[1], pr[2])

\* the trace's metadata carry a word of the vocabulary
TraceMentions(vocabulary) ==
    \E i \in 1..Len(observations) :
        metadata_words(observations[i]) \cap vocabulary # {}

\* the output of the first observation from position i on whose output
\* contains 'insight', else the generic text
RECURSIVE FirstInsight(_)
FirstInsight(i) ==
    IF i > Len(observations) THEN "Cross-domain connection identified"
    ELSE IF observations[i].output \in InsightOutputs
      THEN observations[i].output
    ELSE FirstInsight(i + 1)

\* C29: a trace yields exactly one cross_domain_insights record when its
\* metadata carry both planning vocabulary (gtd, task) and coding vocabulary
\* (code, debug), and none otherwise, whatever min_effectiveness is and
\* whether or not a memory-to-action pattern was found; the record's insight
\* is the first output containing 'insight', else the generic text.
CrossDomainRecordIffBothVocabularies ==
    cpc = "done" =>
        IF TraceMentions({"gtd", "task"}) /\ TraceMentions({"code", "debug"})
          THEN /\ "cross_domain_insights" \in DOMAIN patterns
               /\ Len(patterns["cross_domain_insights"]) = 1
               /\ patterns["cross_domain_insights"][1].trace_id = trace_id
               /\ patterns["cross_domain_insights"][1].insight = FirstInsight(1)
          ELSE "cross_domain_insights" \notin DOMAIN patterns

\* a trace of a completed task and a debugging observation without insight,
\* correlated at threshold 1.0: no memory-to-action pattern, one record with
\* the generic text
CrossDomainWithoutPattern ==
    /\ cpc = "done"
    /\ min_effectiveness = PScale
    /\ DOMAIN patterns = {"cross_domain_insights"}
    /\ Len(patterns["cross_domain_insights"]) = 1
    /\ patterns["cross_domain_insights"][1].insight
           = "Cross-domain connection identified"
    /\ \E i \in 1..Len(observations) : observations[i].task_completed = PyTrue

-----------------------------------------------------------------------------
(* Claims about extract_success_patterns *)

\* the fetches made by the call
FetchesMade == {fetch_log[k] : k \in 1..Len(fetch_log)}

\* C21: when the fetch of the traces, or of the observations of a trace,
\* fails, extract_success_patterns ends with that failure raised to its
\* caller: nothing is returned, neither the patterns collected so far nor an
\* empty result, and the failed fetch was made once.
FetchFailureSurfaces ==
    (xpc = "done" /\ ex_fail \in FetchesMade) =>
        /\ ex_result.kind = "raised"
        /\ ex_result.error = "fetch failed"
        /\ ex_result.fetch = ex_fail
        /\ fetch_log[Len(fetch_log)] = ex_fail
        /\ Cardinality({k \in 1..Len(fetch_log) : fetch_log[k] = ex_fail}) = 1

\* the observations of the second trace could not be fetched after the
\* first trace had given a memory_to_command pattern
SecondTraceFetchFailed ==
    /\ xpc = "done"
    /\ Len(ex_traces) = 2
    /\ Len(ex_traces[1]) = 2
    /\ ex_traces[1][2].command_executed = PyTrue
    /\ ex_min_effectiveness = (7 * PScale) \div 10
    /\ ex_fail = "trace_2"
    /\ fetch_log = <<"traces", "trace_1", "trace_2">>
    /\ ex_result.kind = "raised"

\* what the correlation of trace i alone produces
ExtractedFrom(i) ==
    _extract_patterns_from_trace(EmptyPatterns, TraceIds[i], ex_traces[i],
                                 ex_min_effectiveness).ret

\* C24: when every fetch succeeds, extract_success_patterns returns, and
\* its result holds every pattern the correlation of each trace produced,
\* under the pattern's own type (memory_to_task and
\* memory_to_error_resolution included).
AllExtractedPatternsReturned ==
    (xpc = "done" /\ ex_langfuse /\ ex_fail = "none") =>
        /\ ex_result.kind = "returned"
        /\ \A i \in 1..Len(ex_traces) :
              \A b \in DOMAIN ExtractedFrom(i) :
                  /\ b \in DOMAIN ex_result.patterns
                  /\ \A k \in 1..Len(ExtractedFrom(i)[b]) :
                        \E n \in 1..Len(ex_result.patterns[b]) :
                            ex_result.patterns[b][n] = ExtractedFrom(i)[b][k]

-----------------------------------------------------------------------------
(* Claims about the temporal weight *)

\* the weight the factory gave the record when it created it
CreatedWeight ==
    create_memory(mem_type, age_days, confidence, superseded,
                  created_at + age_days).temporal_weight

AgeOf(m) == now - m.created_at

\* C12: the weight the factory gives is within [0.1, 1.0], is 1.0 at age 0,
\* and of two records of one type the older never weighs more.
WeightDecaysWithAge ==
    \A i \in 1..Len(memories) :
        /\ WideLeq(F_0_1, memories[i].temporal_weight)
        /\ WideLeq(memories[i].temporal_weight, F_1_0)
        /\ AgeOf(memories[i]) = 0 => memories[i].temporal_weight = F_1_0
        /\ \A j \in 1..Len(memories) :
              (/\ memories[i].type = memories[j].type
               /\ AgeOf(memories[i]) <= AgeOf(memories[j]))
              => WideLeq(memories[j].temporal_weight,
                         memories[i].temporal_weight)

\* a record made today and one made 90 days ago, both of type pattern
FreshAndOldPattern ==
    /\ Len(memories) = 2
    /\ memories[1].type = "pattern" /\ memories[2].type = "pattern"
    /\ AgeOf(memories[1]) = 0 /\ memories[1].temporal_weight = F_1_0
    /\ AgeOf(memories[2]) = 90 /\ memories[2].temporal_weight = F_0_1

\* C13, as claimed: the weight a caller uses for a record, the supersession
\* multiplier included, lies in [0.1, 1.0].
UsedWeightAtLeastFloor ==
    read.done => /\ WideLeq(F_0_1, read.weight)
                 /\ WideLeq(read.weight, F_1_0)

\* C13, amended: the weight a caller uses lies in [0.1, 1.0] for a record
\* that is not superseded and in [0.05, 0.5] for a superseded one.
UsedWeightBounds ==
    read.done =>
        IF superseded
          THEN WideLeq(F_0_05, read.weight) /\ WideLeq(read.weight, F_0_5)
          ELSE WideLeq(F_0_1, read.weight) /\ WideLeq(read.weight, F_1_0)

\* a superseded record at the floor is read: 0.1 * 0.5
SupersededFloorRead ==
    /\ read.done
    /\ superseded
    /\ read.age >= 60
    /\ read.temporal_weight = F_0_1
    /\ read.weight = F_0_05

\* the stored weight of the record's twin that is not superseded
TwinWeight ==
    create_memory(mem_type, age_days, confidence, FALSE,
                  created_at + age_days).temporal_weight

\* C14: the weight used for a superseded record is 0.5 times the weight of
\* a record of the same type and age that is not superseded, floor applied
\* first, and is strictly lower than it.
SupersededIsHalf ==
    (read.done /\ superseded) =>
        /\ read.weight = WideHalf(TwinWeight)
        /\ WideLess(read.weight, TwinWeight)

\* a superseded record of age 7 is read: 0.79 * 0.5
SupersededWeekOldRead ==
    /\ read.done
    /\ superseded
    /\ age_days = 7
    /\ read.age = 7
    /\ read.weight = F_0_395

\* C15: the weight of a record of type T and age a is
\* max(0.1, 1.0 - a * rate(T)), rate(T) taken from the table.
WeightFollowsTypeRate ==
    (mem_type \in DOMAIN decay_rates) =>
        temporal_weight = decay_weight(age_days, decay_rates[mem_type])

\* C16: at one age, debug weighs no more than solution, solution no more
\* than pattern, pattern no more than principle.
DecayOrdering ==
    rpc = "done" =>
        /\ WideLeq(type_weights.debug, type_weights.solution)
        /\ WideLeq(type_weights.solution, type_weights.pattern)
        /\ WideLeq(type_weights.pattern, type_weights.principle)

\* the table at age 10: 0.1, 0.7, 0.9 and 0.95
TableAtTenDays ==
    /\ rpc = "done"
    /\ rate_age = 10
    /\ type_weights.debug = F_0_1
    /\ type_weights.solution = F_0_7
    /\ type_weights.pattern = F_0_9
    /\ type_weights.principle = F_0_95

\* C17: the weight a read returns is the decay function of the record's age
\* at the time of the read.
ReadWeightIsOfCurrentAge ==
    read.done => read.temporal_weight = decay_weight(read.age, F_0_03)

\* C18: a record is historical exactly from age 30 on, and a historical
\* record weighs exactly 0.1.
HistoricalWeighsFloor ==
    read.done =>
        /\ read.is_historical <=> read.age >= 30
        /\ read.is_historical => read.temporal_weight = F_0_1

-----------------------------------------------------------------------------
(* Claims about the aggregator *)

\* the patterns handed to the aggregator that are samples of a prompt
SamplesOf(name) ==
    {i \in 1..Len(patterns["memory_to_command"]) :
        /\ "memory_type" \in DOMAIN patterns["memory_to_command"][i]
        /\ prompt_name_of(patterns["memory_to_command"][i]) = name}

\* the exact sum of the samples I
RECURSIVE ExactSum(_)
ExactSum(I) ==
    IF I = {} THEN <<0, 0, 0>>
    ELSE LET i == CHOOSE x \in I : TRUE
         IN  WideAdd(effectiveness_of(patterns["memory_to_command"][i]),
                     ExactSum(I \ {i}))

\* the suggestions made for a prompt
SuggestionsFor(name) ==
    {j \in 1..Len(improvements) : improvements[j].prompt = name}

\* one suggestion for the prompt, with this text and this sample size
OneSuggestion(name, text, n) ==
    /\ Cardinality(SuggestionsFor(name)) = 1
    /\ \A j \in SuggestionsFor(name) :
          /\ improvements[j].recommendation = text
          /\ improvements[j].sample_size = n

\* C19: a prompt with samples gets exactly one 'revise' suggestion when the
\* arithmetic mean of its samples is below 0.6, exactly one 'high performer'
\* suggestion when it is above 0.8, and none when it is in [0.6, 0.8]; the
\* suggestion carries the number of samples.
SuggestionFollowsMean ==
    ipc = "done" =>
        \A name \in {"memory_search_semantic", "memory_search_temporal"} :
            LET I == SamplesOf(name)
                n == Cardinality(I)
            IN  n > 0 =>
                  IF WideLess(ExactSum(I), WideTimes(F_0_6, n))
                    THEN OneSuggestion(name,
                             "Consider revising - low effectiveness", n)
                  ELSE IF WideLess(WideTimes(F_0_8, n), ExactSum(I))
                    THEN OneSuggestion(name,
                             "High performer - use as template", n)
                  ELSE SuggestionsFor(name) = {}

-----------------------------------------------------------------------------
(* Claims about the dataset evaluation *)

\* the statistics reported for a variant
StatsOf(variant) ==
    CHOOSE e \in {eval_results.variants[j] :
                     j \in 1..Len(eval_results.variants)} :
        e.variant = variant

\* the call was a head-to-head comparison that returned its results
ComparisonDone ==
    /\ epc = "done"
    /\ eval_results.kind = "results"
    /\ Len(prompt_variants) >= 2

\* the winner has the highest mean, and no variant given before it has
\* the same mean
WinnerIsFirstBest ==
    /\ eval_results.has_winner
    /\ \E i \in 1..Len(prompt_variants) :
          /\ prompt_variants[i] = eval_results.winner
          /\ \A j \in 1..Len(prompt_variants) :
                WideLeq(StatsOf(prompt_variants[j]).avg_score,
                        StatsOf(prompt_variants[i]).avg_score)
          /\ \A j \in 1..(i - 1) :
                \/ prompt_variants[j] = prompt_variants[i]
                \/ WideLess(StatsOf(prompt_variants[j]).avg_score,
                            StatsOf(prompt_variants[i]).avg_score)

\* every reported variant has min_score <= avg_score <= max_score and
\* a sample_size of the number of items
StatisticsOrdered ==
    \A j \in 1..Len(eval_results.variants) :
        LET e == eval_results.variants[j]
        IN  /\ WideLeq(e.min_score, e.avg_score)
            /\ WideLeq(e.avg_score, e.max_score)
            /\ e.sample_size = Len(dataset_items)

\* C20: in a comparison of two or more variants the winner is the variant
\* of the highest mean score, the first given among those of equal highest
\* mean, and every variant's statistics satisfy min_score <= avg_score <=
\* max_score with sample_size the number of dataset items scored.
ComparisonPicksFirstBest ==
    ComparisonDone => WinnerIsFirstBest /\ StatisticsOrdered

-----------------------------------------------------------------------------
(* Claims about the two scoring tables *)

\* the indicators other than task completion
OtherIndicators == IndicatorKeys \ {"task_completed"}

\* C23: in the weight table and in the signed-delta table task_completed
\* carries 0.5, strictly more than the positive value of every other
\* indicator, and the two tables rank the indicators in the same order; a
\* completed task set against the failure of any one other indicator scores
\* above the neutral 0.5, and the reverse scores below it.
TaskCompletionStrongest ==
    /\ weights["task_completed"] = 5
    /\ signal_score_delta("task_completed", PyTrue) = 5
    /\ \A k \in OtherIndicators :
          /\ weights[k] < weights["task_completed"]
          /\ signal_score_delta(k, PyTrue)
                 < signal_score_delta("task_completed", PyTrue)
    /\ \A k \in IndicatorKeys : \A j \in IndicatorKeys :
          (weights[k] < weights[j])
              <=> (signal_score_delta(k, PyTrue) < signal_score_delta(j, PyTrue))
    /\ sc = "scored" =>
          \A k \in OtherIndicators :
              NonNull(indicators) = {"task_completed", k} =>
                  /\ (indicators["task_completed"] = PyTrue /\ indicators[k] = PyFalse)
                        => effectiveness > Half
                  /\ (indicators["task_completed"] = PyFalse /\ indicators[k] = PyTrue)
                        => effectiveness < Half

\* a completed task next to failed tests was scored 5/9
CompletedTaskOutweighsFailedTests ==
    /\ sc = "scored"
    /\ NonNull(indicators) = {"task_completed", "tests_passed"}
    /\ indicators["task_completed"] = PyTrue
    /\ indicators["tests_passed"] = PyFalse
    /\ effectiveness = (5 * Scale) \div 9

-----------------------------------------------------------------------------
(* Claims about the prompt manager *)

\* the cache key of the last call, and its cache_ttl in force
CallKey == cache_key(pm_call.request.name, pm_call.request.label)

CallTtl ==
    IF pm_call.request.cache_ttl = 0 THEN DefaultCacheTtl
    ELSE pm_call.request.cache_ttl

\* the cache held an entry for the call, and the entry's age at the call
HadEntry == CallKey \in DOMAIN pm_call.cache_before

EntryAge == pm_call.at - pm_call.cache_before[CallKey].timestamp

\* the cache held an entry younger than cache_ttl
HadFreshEntry == HadEntry /\ EntryAge < CallTtl

\* the template with the call's variables put in place
Filled(template) ==
    [i \in 1..Len(template) |->
        IF template[i].kind = "placeholder"
           /\ template[i].value \in DOMAIN pm_call.request.variables
          THEN [kind |-> "text",
                value |-> pm_call.request.variables[template[i].value]]
          ELSE template[i]]

ExpiredEntryNeverServed ==
    (pm_call.made /\ HadEntry) =>
        IF EntryAge >= CallTtl
          THEN /\ pm_result.log # "Using cached prompt"
               /\ pm_langfuse => pm_call.fetched
          ELSE /\ pm_result.log = "Using cached prompt"
               /\ ~pm_call.fetched

\* C30: get_prompt raises 'Prompt not found' exactly when the cache holds no
\* fresh entry for the call, Langfuse is absent or its fetch fails, and the
\* name has no fallback prompt; a call that raised left the cache as it was,
\* and a stale entry is not served when the fetch fails.
NotFoundExactlyWhenNothingToServe ==
    pm_call.made =>
        /\ pm_result.kind = "raised"
              <=> (/\ ~HadFreshEntry
                   /\ (~pm_langfuse \/ pm_call.fetch_raises)
                   /\ pm_call.request.name \notin DOMAIN fallback_prompts)
        /\ pm_result.kind = "raised" => pm_cache = pm_call.cache_before
        /\ (HadEntry /\ ~HadFreshEntry /\ pm_call.fetch_raises)
              => pm_result.log # "Using cached prompt"

====
